---- MODULE Spec2Model ----
(***************************************************************************)
(* BlockHeightMap (chia/full_node/block_height_map.py): the in-memory      *)
(* height -> header-hash index of the canonical chain, loaded backwards    *)
(* from the peak row of the block_records table, with its sub-epoch        *)
(* summaries, and kept up to date with update_height and rollback.         *)
(*                                                                         *)
(* Hashes are modelled by the integer the tests pack into them             *)
(* (gen_block_hash), Optional[T] values by <<>> (None) and <<v>>, and the  *)
(* two dictionaries by functions whose DOMAIN is the set of keys.          *)
(* Python's assert statements are modelled as enabled (the interpreter's   *)
(* default, and the way the tests run).                                    *)
(***************************************************************************)
EXTENDS Integers, Sequences, FiniteSets, TLC

VARIABLES
    db,                   \* the rows of block_records (the store)
    phase,                \* "none": not constructed, "ok": create returned, "failed": create raised
    height_to_hash,       \* BlockHeightMap.__height_to_hash
    sub_epoch_summaries,  \* BlockHeightMap.__sub_epoch_summaries
    prev_hash,            \* BlockHeightMap.__prev_hash
    lowest_height,        \* BlockHeightMap.__lowest_height
    error,                \* the exception the last call raised, "" when it returned
    lastOp,               \* the last call and its arguments (history, for the properties)
    reorg,                \* the reorganisation under way (history, for the properties)
    queries,              \* the queries the last call sent to the store, in order
    inOrder,              \* no update_height call so far was above the peak height + 1 (history)
    rolled,               \* the run of rollback calls under way: the object before it and
                          \* the lowest fork height of the run (history)
    loop                  \* the while loop of _load_blocks_to when it is run step by step:
                          \* its target, the rows fetched, the iterations completed

vars ==
    <<db, phase, height_to_hash, sub_epoch_summaries, prev_hash, lowest_height, error,
      lastOp, reorg, queries, inOrder, rolled, loop>>

\* ------------------------------------------------------------------ bounds

\* Blocks of the block tree live at heights 0..MaxHeight.
MaxHeight == 2
\* Number of chains of the block tree (chain 0 and the chains competing with it).
NumChains == 2
\* At most this many rows of a store are not ancestors of its peak.
MaxOrphans == 1

\* ------------------------------------------------------------- optionals

None == <<>>
Some(v) == <<v>>
Val(o) == o[1]

EmptyMap == [k \in {} |-> 0]

\* d[k] = v of a Python dict d
Put(d, k, v) == [x \in (DOMAIN d) \cup {k} |-> IF x = k THEN v ELSE d[x]]

\* del d[k] for every k in ks
DelAll(d, ks) == [x \in (DOMAIN d) \ ks |-> d[x]]

Max(S) == CHOOSE x \in S : \A y \in S : y <= x
Min(S) == CHOOSE x \in S : \A y \in S : x <= y

\* ------------------------------------------------- the blocks of the tests

\* bytes32([0] * 32), the parent of a genesis block
ZeroHash == 0

\* chain_id * 65536 is mixed in to the hashes of a competing chain
ChainStride == 65536

\* struct.pack(">I", height + 1) * 8: the hash is the number height + 1
gen_block_hash(n) == n + 1

SesPrevOffset == 16384000
SesRewardOffset == 16515072

\* gen_ses: SubEpochSummary(prev_ses, reward_chain_hash, 0, None, None)
gen_ses(n) ==
    [prev_subepoch_summary_hash |-> gen_block_hash(n + SesPrevOffset),
     reward_chain_hash |-> gen_block_hash(n + SesRewardOffset)]

\* bytes(ses): the streamable encoding of a summary
ToBytes(ses) == <<ses.prev_subepoch_summary_hash, ses.reward_chain_hash>>

\* whether SubEpochSummary.from_bytes accepts the blob
Decodable(blob) == Len(blob) = 2

\* SubEpochSummary.from_bytes(blob)
FromBytes(blob) ==
    [prev_subepoch_summary_hash |-> blob[1], reward_chain_hash |-> blob[2]]

\* the block of chain c at height h
BlockId(c, h) == gen_block_hash(h + c * ChainStride)
HeightOf(x) == (x - 1) % ChainStride
ChainOf(x) == (x - 1) \div ChainStride

\* Chain c >= 1 competes with chain 0 above height ForkHeight(c): chain 1
\* shares the genesis block with chain 0, chain 2 shares no block with it (as
\* the chains of the tests), chain c >= 3 shares the blocks up to height c - 2.
ForkHeight(c) == IF c = 0 \/ c = 2 THEN -1 ELSE IF c = 1 THEN 0 ELSE c - 2

Chains == 0 .. (NumChains - 1)
Heights == 0 .. MaxHeight

\* the blocks of the tree: chain c has its own blocks above ForkHeight(c)
Universe ==
    {BlockId(q[1], q[2]) : q \in {r \in Chains \X Heights : r[2] > ForkHeight(r[1])}}

\* parent_hash of setup_chain: the previous block of the chain, bytes32([0] * 32) at height 0
ParentOf(x) ==
    IF HeightOf(x) = 0 THEN ZeroHash
    ELSE IF HeightOf(x) - 1 > ForkHeight(ChainOf(x))
         THEN BlockId(ChainOf(x), HeightOf(x) - 1)
         ELSE BlockId(0, HeightOf(x) - 1)

RECURSIVE Ancestors(_)
\* the block x and every block on its parent chain down to height 0
Ancestors(x) == IF x = ZeroHash THEN {} ELSE {x} \cup Ancestors(ParentOf(x))

\* the summary setup_chain gives a block: every ses_every heights (0: never)
SesOf(x, ses_every) ==
    IF ses_every # 0 /\ HeightOf(x) % ses_every = 0
    THEN Some(ToBytes(gen_ses(x - 1)))
    ELSE None

\* new_block: INSERT INTO block_records VALUES(hash, parent, height, ses, is_peak)
new_block(block_hash, parent, height, is_peak, ses) ==
    [header_hash |-> block_hash, prev_hash |-> parent, height |-> height,
     sub_epoch_summary |-> ses, is_peak |-> is_peak]

SesEvery == 0 .. 2

\* A store: the ancestors of the peak block (all but those in `missing`), the
\* rows of `orphans`, the peak flagged unless `flagged` is FALSE.
Store(peak, orphans, missing, every, orphan_every, flagged) ==
    {new_block(x, ParentOf(x), HeightOf(x), flagged /\ x = peak, SesOf(x, every)) :
        x \in Ancestors(peak) \ missing}
    \cup
    {new_block(x, ParentOf(x), HeightOf(x), FALSE, SesOf(x, orphan_every)) : x \in orphans}

\* the stores construction is run on
Stores ==
    UNION {
        UNION {
            {Store(peak, orphans, missing, e[1], e[2], flagged) :
                e \in SesEvery \X SesEvery,
                missing \in {{}} \cup {{m} : m \in Ancestors(peak) \ {peak}},
                flagged \in BOOLEAN}
            : orphans \in {o \in SUBSET (Universe \ Ancestors(peak)) : Cardinality(o) <= MaxOrphans}}
        : peak \in Universe}

\* ------------------------------------------------------------ the queries

\* SELECT ... from block_records WHERE is_peak=1
PeakRows(d) == {r \in d : r.is_peak}

\* SELECT ... from block_records WHERE height>=? AND height <?
RangeRows(d, lo, hi) == {r \in d : r.height >= lo /\ r.height < hi}

\* the sequences fetchall may return for a set of rows: any order
RowOrders(S) ==
    {s \in [1 .. Cardinality(S) -> S] : \A i, j \in 1 .. Cardinality(S) : i # j => s[i] # s[j]}

RECURSIVE OrderedFrom(_, _, _)
OrderedFrom(rows, i, acc) ==
    IF i > Len(rows) THEN acc
    ELSE OrderedFrom(rows, i + 1,
            Put(acc, rows[i].header_hash,
                <<rows[i].height, rows[i].prev_hash, rows[i].sub_epoch_summary>>))

\* ordered: maps block-hash -> (height, prev-hash, sub-epoch-summary)
Ordered(rows) == OrderedFrom(rows, 1, EmptyMap)

\* --------------------------------------------------------- _load_blocks_to

\* the members of the object, and the exception raised ("" for none)
Self(hh, ses, prev, low, err) ==
    [height_to_hash |-> hh, sub_epoch_summaries |-> ses, prev_hash |-> prev,
     lowest_height |-> low, error |-> err]

RECURSIVE LoadLoopByHeight(_, _, _)
\* LoadLoop changed: the next block is any row of the expected height, not the
\* row the parent-hash pointer names
LoadLoopByHeight(self, ordered, height) ==
    IF ~(self.lowest_height > height) THEN self
    ELSE IF \A x \in DOMAIN ordered : ordered[x][1] # self.lowest_height - 1
    THEN [self EXCEPT !.error = "KeyError"]
    ELSE LET x == CHOOSE y \in DOMAIN ordered : ordered[y][1] = self.lowest_height - 1
             entry == ordered[x]
         IN LoadLoopByHeight(
                [self EXCEPT
                    !.height_to_hash = Put(@, entry[1], x),
                    !.sub_epoch_summaries =
                        IF entry[3] # None
                        THEN Put(@, entry[1], FromBytes(Val(entry[3])))
                        ELSE @,
                    !.prev_hash = Some(entry[2]),
                    !.lowest_height = entry[1]],
                ordered, height)

RECURSIVE LoadLoopRecordsParent(_, _, _)
\* LoadLoop changed: the hash recorded at the entry's height is the entry's
\* prev-hash (entry[1]) instead of the hash that was looked up
LoadLoopRecordsParent(self, ordered, height) ==
    IF ~(self.lowest_height > height) THEN self
    ELSE IF Val(self.prev_hash) \notin DOMAIN ordered
    THEN [self EXCEPT !.error = "KeyError"]
    ELSE LET entry == ordered[Val(self.prev_hash)] IN
         IF entry[1] # self.lowest_height - 1
         THEN [self EXCEPT !.error = "AssertionError"]
         ELSE LoadLoopRecordsParent(
                [self EXCEPT
                    !.height_to_hash = Put(@, entry[1], entry[2]),
                    !.sub_epoch_summaries =
                        IF entry[3] # None
                        THEN Put(@, entry[1], FromBytes(Val(entry[3])))
                        ELSE @,
                    !.prev_hash = Some(entry[2]),
                    !.lowest_height = entry[1]],
                ordered, height)

RECURSIVE LoadLoopAllowsGap(_, _, _)
\* LoadLoop changed: the entry's height is only asserted to be below
\* lowest_height, not to be the height just below it
LoadLoopAllowsGap(self, ordered, height) ==
    IF ~(self.lowest_height > height) THEN self
    ELSE IF Val(self.prev_hash) \notin DOMAIN ordered
    THEN [self EXCEPT !.error = "KeyError"]
    ELSE LET entry == ordered[Val(self.prev_hash)] IN
         IF ~(entry[1] < self.lowest_height)
         THEN [self EXCEPT !.error = "AssertionError"]
         ELSE LET recorded ==
                    [self EXCEPT !.height_to_hash = Put(@, entry[1], Val(self.prev_hash))]
              IN IF entry[3] # None /\ ~Decodable(Val(entry[3]))
                 THEN [recorded EXCEPT !.error = "DecodeError"]
                 ELSE LoadLoopAllowsGap(
                        [recorded EXCEPT
                            !.sub_epoch_summaries =
                                IF entry[3] # None
                                THEN Put(@, entry[1], FromBytes(Val(entry[3])))
                                ELSE @,
                            !.prev_hash = Some(entry[2]),
                            !.lowest_height = entry[1]],
                        ordered, height)

RECURSIVE LoadLoopStopsEarly(_, _, _)
\* LoadLoop changed: the loop ends one height above the target
\* (while lowest_height > height + 1)
LoadLoopStopsEarly(self, ordered, height) ==
    IF ~(self.lowest_height > height + 1) THEN self
    ELSE IF Val(self.prev_hash) \notin DOMAIN ordered
    THEN [self EXCEPT !.error = "KeyError"]
    ELSE LET entry == ordered[Val(self.prev_hash)] IN
         IF entry[1] # self.lowest_height - 1
         THEN [self EXCEPT !.error = "AssertionError"]
         ELSE LET recorded ==
                    [self EXCEPT !.height_to_hash = Put(@, entry[1], Val(self.prev_hash))]
              IN IF entry[3] # None /\ ~Decodable(Val(entry[3]))
                 THEN [recorded EXCEPT !.error = "DecodeError"]
                 ELSE LoadLoopStopsEarly(
                        [recorded EXCEPT
                            !.sub_epoch_summaries =
                                IF entry[3] # None
                                THEN Put(@, entry[1], FromBytes(Val(entry[3])))
                                ELSE @,
                            !.prev_hash = Some(entry[2]),
                            !.lowest_height = entry[1]],
                        ordered, height)

RECURSIVE LoadLoop(_, _, _)
\* while self.__lowest_height > height: ...
LoadLoop(self, ordered, height) ==
    IF ~(self.lowest_height > height) THEN self
    ELSE IF Val(self.prev_hash) \notin DOMAIN ordered
    THEN [self EXCEPT !.error = "KeyError"]
    ELSE LET entry == ordered[Val(self.prev_hash)] IN
         IF entry[1] # self.lowest_height - 1
         THEN [self EXCEPT !.error = "AssertionError"]
         ELSE LET recorded ==
                    [self EXCEPT !.height_to_hash = Put(@, entry[1], Val(self.prev_hash))]
              IN IF entry[3] # None /\ ~Decodable(Val(entry[3]))
                 THEN [recorded EXCEPT !.error = "DecodeError"]
                 ELSE LoadLoop(
                        [recorded EXCEPT
                            !.sub_epoch_summaries =
                                IF entry[3] # None
                                THEN Put(@, entry[1], FromBytes(Val(entry[3])))
                                ELSE @,
                            !.prev_hash = Some(entry[2]),
                            !.lowest_height = entry[1]],
                        ordered, height)

\* LoadBlocksTo changed: the loop walks a local copy of prev_hash and the
\* member is not written back
LoadBlocksToStalePrev(self, rows, height) ==
    IF ~(self.lowest_height > height) THEN [self EXCEPT !.error = "AssertionError"]
    ELSE IF self.prev_hash = None THEN [self EXCEPT !.error = "AssertionError"]
    ELSE [LoadLoop(self, Ordered(rows), height) EXCEPT !.prev_hash = self.prev_hash]

\* LoadIteration changed: the assert on the entry's height is missing
LoadIterationNoHeightCheck(self, ordered) ==
    IF Val(self.prev_hash) \notin DOMAIN ordered
    THEN [self EXCEPT !.error = "KeyError"]
    ELSE LET entry == ordered[Val(self.prev_hash)]
             recorded == [self EXCEPT !.height_to_hash = Put(@, entry[1], Val(self.prev_hash))]
         IN IF entry[3] # None /\ ~Decodable(Val(entry[3]))
            THEN [recorded EXCEPT !.error = "DecodeError"]
            ELSE [recorded EXCEPT
                    !.sub_epoch_summaries =
                        IF entry[3] # None
                        THEN Put(@, entry[1], FromBytes(Val(entry[3])))
                        ELSE @,
                    !.prev_hash = Some(entry[2]),
                    !.lowest_height = entry[1]]

\* one iteration of the while loop of _load_blocks_to (the body of LoadLoop)
LoadIteration(self, ordered) ==
    IF Val(self.prev_hash) \notin DOMAIN ordered
    THEN [self EXCEPT !.error = "KeyError"]
    ELSE LET entry == ordered[Val(self.prev_hash)] IN
         IF entry[1] # self.lowest_height - 1
         THEN [self EXCEPT !.error = "AssertionError"]
         ELSE LET recorded ==
                    [self EXCEPT !.height_to_hash = Put(@, entry[1], Val(self.prev_hash))]
              IN IF entry[3] # None /\ ~Decodable(Val(entry[3]))
                 THEN [recorded EXCEPT !.error = "DecodeError"]
                 ELSE [recorded EXCEPT
                        !.sub_epoch_summaries =
                            IF entry[3] # None
                            THEN Put(@, entry[1], FromBytes(Val(entry[3])))
                            ELSE @,
                        !.prev_hash = Some(entry[2]),
                        !.lowest_height = entry[1]]

\* _load_blocks_to(height), the range query having returned `rows`
LoadBlocksTo(self, rows, height) ==
    IF ~(self.lowest_height > height) THEN [self EXCEPT !.error = "AssertionError"]
    ELSE IF self.prev_hash = None THEN [self EXCEPT !.error = "AssertionError"]
    ELSE LoadLoop(self, Ordered(rows), height)

\* the range queries _load_blocks_to(height) sends: none when the first assert
\* fails, else one over [height, lowest_height)
LoadQueries(self, height) ==
    IF ~(self.lowest_height > height) THEN <<>>
    ELSE <<[query |-> "range", lo |-> height, hi |-> self.lowest_height]>>

\* ------------------------------------------------------------------ create

\* the object before the peak row is read: empty dictionaries, the class defaults
Fresh == Self(EmptyMap, EmptyMap, None, 0, "")

\* Seeded changed: the summary of the peak row is not recorded
SeededNoSummary(row) ==
    [Fresh EXCEPT
        !.prev_hash = Some(row.prev_hash),
        !.lowest_height = row.height,
        !.height_to_hash = Put(@, row.height, row.header_hash)]

\* the members seeded from the peak row
Seeded(row) ==
    IF row.sub_epoch_summary # None /\ ~Decodable(Val(row.sub_epoch_summary))
    THEN [Fresh EXCEPT
            !.prev_hash = Some(row.prev_hash),
            !.lowest_height = row.height,
            !.height_to_hash = Put(@, row.height, row.header_hash),
            !.error = "DecodeError"]
    ELSE Self(Put(EmptyMap, row.height, row.header_hash),
              IF row.sub_epoch_summary # None
              THEN Put(EmptyMap, row.height, FromBytes(Val(row.sub_epoch_summary)))
              ELSE EmptyMap,
              Some(row.prev_hash), row.height, "")

\* CreateFrom changed: the early return for a store with no peak row is missing,
\* and the seeding subscripts None
CreateFromRequiresPeak(row, rows) ==
    IF row = None THEN [Fresh EXCEPT !.error = "TypeError"]
    ELSE IF Seeded(Val(row)).error # "" THEN Seeded(Val(row))
    ELSE LoadBlocksTo(Seeded(Val(row)), rows, 0)

\* create(db), fetchone having returned `row` (None or a peak row) and the range
\* query `rows`
CreateFrom(row, rows) ==
    IF row = None THEN Fresh
    ELSE IF Seeded(Val(row)).error # "" THEN Seeded(Val(row))
    ELSE LoadBlocksTo(Seeded(Val(row)), rows, 0)

\* the query for the peak row
PeakQuery == [query |-> "peak", lo |-> 0, hi |-> 0]

\* the queries create sends, fetchone having returned `row`
CreateQueries(row) ==
    IF row = None THEN <<PeakQuery>>
    ELSE IF Seeded(Val(row)).error # "" THEN <<PeakQuery>>
    ELSE <<PeakQuery>> \o LoadQueries(Seeded(Val(row)), 0)

\* ------------------------------------------------- update_height, rollback

\* update_height changed: the hash is recorded one height too high
update_height_off_by_one(self, height, header_hash, ses) ==
    IF ~(height >= self.lowest_height) THEN [self EXCEPT !.error = "AssertionError"]
    ELSE [self EXCEPT
            !.height_to_hash = Put(@, height + 1, header_hash),
            !.sub_epoch_summaries = IF ses # None THEN Put(@, height, Val(ses)) ELSE @,
            !.error = ""]

\* update_height changed: the summary is recorded one height too high
update_height_summary_above(self, height, header_hash, ses) ==
    IF ~(height >= self.lowest_height) THEN [self EXCEPT !.error = "AssertionError"]
    ELSE [self EXCEPT
            !.height_to_hash = Put(@, height, header_hash),
            !.sub_epoch_summaries = IF ses # None THEN Put(@, height + 1, Val(ses)) ELSE @,
            !.error = ""]

\* update_height changed: a height that has a hash keeps it (setdefault)
update_height_keeps_old(self, height, header_hash, ses) ==
    IF ~(height >= self.lowest_height) THEN [self EXCEPT !.error = "AssertionError"]
    ELSE [self EXCEPT
            !.height_to_hash = IF height \in DOMAIN @ THEN @ ELSE Put(@, height, header_hash),
            !.sub_epoch_summaries = IF ses # None THEN Put(@, height, Val(ses)) ELSE @,
            !.error = ""]

\* update_height changed: lowest_height is moved to the height updated
update_height_moves_floor(self, height, header_hash, ses) ==
    IF ~(height >= self.lowest_height) THEN [self EXCEPT !.error = "AssertionError"]
    ELSE [self EXCEPT
            !.height_to_hash = Put(@, height, header_hash),
            !.sub_epoch_summaries = IF ses # None THEN Put(@, height, Val(ses)) ELSE @,
            !.lowest_height = height,
            !.error = ""]

\* update_height(height, header_hash, ses)
update_height(self, height, header_hash, ses) ==
    IF ~(height >= self.lowest_height) THEN [self EXCEPT !.error = "AssertionError"]
    ELSE [self EXCEPT
            !.height_to_hash = Put(@, height, header_hash),
            !.sub_epoch_summaries = IF ses # None THEN Put(@, height, Val(ses)) ELSE @,
            !.error = ""]

\* HeightsToDelete changed: >= in place of >
HeightsToDeleteFromFork(self, fork_height) ==
    {h \in DOMAIN self.sub_epoch_summaries : h >= fork_height}

\* HeightsToDelete changed: the height just above the fork height is kept
HeightsToDeleteAboveNext(self, fork_height) ==
    {h \in DOMAIN self.sub_epoch_summaries : h > fork_height + 1}

\* heights_to_delete of rollback
HeightsToDelete(self, fork_height) ==
    {h \in DOMAIN self.sub_epoch_summaries : h > fork_height}

\* rollback changed: the hashes above the fork height are deleted too
rollback_truncates_hashes(self, fork_height) ==
    [self EXCEPT
        !.sub_epoch_summaries = DelAll(@, HeightsToDelete(self, fork_height)),
        !.height_to_hash = DelAll(@, {h \in DOMAIN @ : h > fork_height}),
        !.error = ""]

\* rollback changed: the loop over heights_to_delete stops after the first
\* deletion, that of the highest height
rollback_deletes_one(self, fork_height) ==
    [self EXCEPT
        !.sub_epoch_summaries =
            IF HeightsToDelete(self, fork_height) = {} THEN @
            ELSE DelAll(@, {Max(HeightsToDelete(self, fork_height))}),
        !.error = ""]

\* rollback(fork_height)
rollback(self, fork_height) ==
    [self EXCEPT
        !.sub_epoch_summaries = DelAll(@, HeightsToDelete(self, fork_height)),
        !.error = ""]

\* ----------------------------------------------------------------- queries

\* get_hash changed: a height with no entry yields the zero hash
\* (dict.get with a default) instead of raising KeyError
get_hash_or_zero(self, height) ==
    IF height \in DOMAIN self.height_to_hash THEN Some(self.height_to_hash[height])
    ELSE Some(ZeroHash)

\* get_hash(height): Some(hash), or None when the lookup raises KeyError
get_hash(self, height) ==
    IF height \in DOMAIN self.height_to_hash THEN Some(self.height_to_hash[height]) ELSE None

\* contains_height changed: the key is looked up in the summaries dictionary
contains_height_in_summaries(self, height) ==
    IF height < self.lowest_height THEN TRUE ELSE height \in DOMAIN self.sub_epoch_summaries

\* contains_height changed: the heights below lowest_height are not taken as present
contains_height_ignores_floor(self, height) ==
    height \in DOMAIN self.height_to_hash

\* contains_height(height)
contains_height(self, height) ==
    IF height < self.lowest_height THEN TRUE ELSE height \in DOMAIN self.height_to_hash

\* get_ses(height): Some(summary), or None when the lookup raises KeyError
get_ses(self, height) ==
    IF height \in DOMAIN self.sub_epoch_summaries
    THEN Some(self.sub_epoch_summaries[height])
    ELSE None

\* sorted(keys): the keys in ascending order, smallest first
Sorted(S) ==
    LET RECURSIVE From(_)
        From(rest) == IF rest = {} THEN <<>>
                      ELSE <<Min(rest)>> \o From(rest \ {Min(rest)})
    IN From(S)

\* get_ses_heights changed: the keys are returned largest first
get_ses_heights_descending(self) ==
    LET RECURSIVE From(_)
        From(rest) == IF rest = {} THEN <<>>
                      ELSE <<Max(rest)>> \o From(rest \ {Max(rest)})
    IN From(DOMAIN self.sub_epoch_summaries)

\* get_ses_heights()
get_ses_heights(self) == Sorted(DOMAIN self.sub_epoch_summaries)

\* ------------------------------------------------------------- the actions

\* the object as the variables hold it
Current == Self(height_to_hash, sub_epoch_summaries, prev_hash, lowest_height, error)

\* the highest key of height_to_hash, -1 when there is none
PeakHeight(self) ==
    IF DOMAIN self.height_to_hash = {} THEN -1 ELSE Max(DOMAIN self.height_to_hash)

NoOp ==
    [op |-> "none", height |-> 0, header_hash |-> 0, ses |-> None, peak_before |-> -1,
     deleted |-> {}, result |-> None, floor_before |-> 0]

Install(self) ==
    /\ height_to_hash' = self.height_to_hash
    /\ sub_epoch_summaries' = self.sub_epoch_summaries
    /\ prev_hash' = self.prev_hash
    /\ lowest_height' = self.lowest_height
    /\ error' = self.error

Create ==
    /\ phase = "none"
    /\ \E row \in {None} \cup {Some(r) : r \in PeakRows(db)} :
        /\ (row = None) = (PeakRows(db) = {})
        /\ \E rows \in RowOrders(RangeRows(db, 0, IF row = None THEN 0 ELSE Val(row).height)) :
            /\ Install(CreateFrom(row, rows))
            /\ phase' = IF CreateFrom(row, rows).error = "" THEN "ok" ELSE "failed"
        /\ queries' = CreateQueries(row)
    /\ lastOp' = [NoOp EXCEPT !.op = "create"]
    /\ UNCHANGED db

\* the blocks the node connects: a block of the tree at its own height, with
\* its summary or with none
UpdateHeight(header_hash, ses) ==
    /\ phase = "ok"
    /\ Install(update_height(Current, HeightOf(header_hash), header_hash, ses))
    /\ lastOp' = [NoOp EXCEPT !.op = "update_height", !.height = HeightOf(header_hash),
                              !.header_hash = header_hash, !.ses = ses,
                              !.peak_before = PeakHeight(Current)]
    /\ queries' = <<>>
    /\ UNCHANGED <<db, phase>>

Rollback(fork_height) ==
    /\ phase = "ok"
    /\ Install(rollback(Current, fork_height))
    /\ lastOp' = [NoOp EXCEPT !.op = "rollback", !.height = fork_height,
                              !.peak_before = PeakHeight(Current),
                              !.deleted = HeightsToDelete(Current, fork_height)]
    /\ queries' = <<>>
    /\ UNCHANGED <<db, phase>>

ForkHeights == -1 .. MaxHeight

\* the summary the node supplies with block x, when it supplies one
SummaryOf(x) == gen_ses(x - 1)

NoReorg ==
    [active |-> FALSE, fork_height |-> -1, before |-> EmptyMap, intact |-> FALSE,
     supplied |-> EmptyMap]

\* every link of the recorded path from height 1 to height n is a parent link of the block tree
Continuous(hh, n) ==
    /\ \A h \in 0 .. n : h \in DOMAIN hh
    /\ \A h \in 1 .. n : ParentOf(hh[h]) = hh[h - 1]

Next ==
    \/ Create /\ UNCHANGED <<reorg, inOrder, rolled, loop>>
    \/ \E x \in Universe : \E s \in {None, Some(SummaryOf(x))} :
            UpdateHeight(x, s) /\ UNCHANGED <<reorg, inOrder, rolled, loop>>
    \/ \E k \in ForkHeights : Rollback(k) /\ UNCHANGED <<reorg, inOrder, rolled, loop>>

\* the store of the start state is one of `stores`
\* no run of rollback calls is under way
NoRun == [active |-> FALSE, base |-> Fresh, fork |-> -1]

\* _load_blocks_to has not been entered
NoLoop ==
    [active |-> FALSE, target |-> 0, ordered |-> EmptyMap, steps |-> 0, floor |-> 0,
     from |-> Fresh]

InitOn(stores) ==
    /\ db \in stores
    /\ phase = "none"
    /\ height_to_hash = Fresh.height_to_hash
    /\ sub_epoch_summaries = Fresh.sub_epoch_summaries
    /\ prev_hash = Fresh.prev_hash
    /\ lowest_height = Fresh.lowest_height
    /\ error = Fresh.error
    /\ lastOp = NoOp
    /\ reorg = NoReorg
    /\ queries = <<>>
    /\ inOrder = TRUE
    /\ rolled = NoRun
    /\ loop = NoLoop

InitCreate == InitOn(Stores)

\* construction alone, over every store
SpecCreate == InitCreate /\ [][Create /\ UNCHANGED <<reorg, inOrder, rolled, loop>>]_vars

\* the stores of a node in operation: the store of a fresh node (no row
\* flagged as peak), and setup_chain's chain 0 with a summary every 2 heights,
\* no gap and no orphan rows, its peak one below the highest height
NodeStores ==
    {Store(BlockId(0, MaxHeight - 1), {}, {}, 2, 0, TRUE),
     Store(BlockId(0, 0), {}, {}, 0, 0, FALSE)}

Init == InitOn(NodeStores)

\* construction followed by any sequence of update_height and rollback calls
Spec == Init /\ [][Next]_vars

\* rollback(k) opens a reorganisation
ReorgRollback(k) ==
    /\ Rollback(k)
    /\ UNCHANGED <<inOrder, rolled, loop>>
    /\ reorg' = [active |-> TRUE, fork_height |-> k, before |-> height_to_hash,
                 intact |-> Continuous(height_to_hash, k), supplied |-> EmptyMap]

\* the next block of the replacement chain: at the height after the last one
\* supplied, its parent the block recorded below it
ReorgAdvance(x, s) ==
    /\ reorg.active
    /\ HeightOf(x) = reorg.fork_height + 1 + Cardinality(DOMAIN reorg.supplied)
    /\ IF HeightOf(x) = 0 THEN ParentOf(x) = ZeroHash
       ELSE get_hash(Current, HeightOf(x) - 1) = Some(ParentOf(x))
    /\ UpdateHeight(x, s)
    /\ UNCHANGED <<inOrder, rolled, loop>>
    /\ reorg' = [reorg EXCEPT !.supplied = Put(@, HeightOf(x), x)]

NextReorg ==
    \/ Create /\ UNCHANGED <<reorg, inOrder, rolled, loop>>
    \/ \E k \in ForkHeights : ReorgRollback(k)
    \/ \E x \in Universe : \E s \in {None, Some(SummaryOf(x))} : ReorgAdvance(x, s)

\* construction followed by reorganisations: rollback(k), then update_height
\* for the blocks of the replacement chain in increasing order of height
SpecReorg == Init /\ [][NextReorg]_vars

\* ------------------------------------------------------ runs of rollbacks

\* rollback(fork_height); `rolled` keeps the object as it was before the first
\* rollback of the run of consecutive rollbacks and the lowest fork height of the run
RollbackInRun(fork_height) ==
    /\ Rollback(fork_height)
    /\ rolled' = IF rolled.active
                 THEN [rolled EXCEPT !.fork = Min({@, fork_height})]
                 ELSE [active |-> TRUE, base |-> Current, fork |-> fork_height]

\* the blocks connected between the runs: those of the chain of the store
RunBlocks == {x \in Universe : ChainOf(x) = 0}

NextRuns ==
    \/ Create /\ UNCHANGED <<reorg, inOrder, rolled, loop>>
    \/ \E x \in RunBlocks : \E s \in {None, Some(SummaryOf(x))} :
            UpdateHeight(x, s) /\ rolled' = NoRun /\ UNCHANGED <<reorg, inOrder, loop>>
    \/ \E k \in ForkHeights : RollbackInRun(k) /\ UNCHANGED <<reorg, inOrder, loop>>

\* construction followed by update_height calls and runs of rollback calls
SpecRuns == Init /\ [][NextRuns]_vars

\* ------------------------------------------- seeding and backward loading

\* the first half of create: the peak query and the seeding from its row,
\* before any block below the peak is loaded
Seed ==
    /\ phase = "none"
    /\ \E row \in {None} \cup {Some(r) : r \in PeakRows(db)} :
        /\ (row = None) = (PeakRows(db) = {})
        /\ Install(IF row = None THEN Fresh ELSE Seeded(Val(row)))
        /\ phase' = IF row # None /\ Seeded(Val(row)).error # "" THEN "failed" ELSE "ok"
    /\ queries' = <<PeakQuery>>
    /\ lastOp' = [NoOp EXCEPT !.op = "seed"]
    /\ UNCHANGED db

\* _load_blocks_to(height), called as its first assert demands: with a height
\* below lowest_height
LoadTo(height) ==
    /\ phase = "ok"
    /\ height < lowest_height
    /\ \E rows \in RowOrders(RangeRows(db, height, lowest_height)) :
        Install(LoadBlocksTo([Current EXCEPT !.error = ""], rows, height))
    /\ queries' = LoadQueries(Current, height)
    /\ lastOp' = [NoOp EXCEPT !.op = "load", !.height = height,
                              !.peak_before = PeakHeight(Current),
                              !.floor_before = lowest_height]
    /\ UNCHANGED <<db, phase>>

\* a blob SubEpochSummary.from_bytes rejects: cut short
TruncatedBlob == <<gen_block_hash(SesPrevOffset)>>

\* the rows that differ from the row r in one column: its height, its parent
\* hash or its summary blob
DamagedRows(r) ==
    {[r EXCEPT !.height = h] : h \in Heights \ {r.height}}
    \cup {[r EXCEPT !.prev_hash = x] : x \in (Universe \cup {ZeroHash}) \ {r.prev_hash}}
    \cup {[r EXCEPT !.sub_epoch_summary = Some(TruncatedBlob)]}

\* the stores of one chain (peak flagged, no orphans) with one row damaged
DamagedStores ==
    UNION {
        UNION {{(d \ {r}) \cup {q} : q \in DamagedRows(r)} : r \in d}
        : d \in {Store(peak, {}, {}, every, 0, TRUE) :
                    peak \in {x \in Universe : ChainOf(x) = 0}, every \in {0, 1}}}

\* the stores backward loading is run on: sound ones, ones with a row missing,
\* ones with orphans, ones with a damaged row
LoadStores == Stores \cup DamagedStores

InitLoad == InitOn(LoadStores)

NextLoad ==
    \/ Seed /\ UNCHANGED <<reorg, inOrder, rolled, loop>>
    \/ Create /\ UNCHANGED <<reorg, inOrder, rolled, loop>>
    \/ \E t \in Heights : LoadTo(t) /\ UNCHANGED <<reorg, inOrder, rolled, loop>>

\* construction in one call, or seeding followed by backward loads to any heights
SpecLoad == InitLoad /\ [][NextLoad]_vars

\* ------------------------------------------------ an index loaded in part

\* the heights the queries are asked at
QueryHeights == 0 .. (MaxHeight + 1)

QueryNames == {"get_hash", "get_ses", "contains_height", "get_ses_heights"}

\* a query: the object is read and its answer returned; get_hash and get_ses
\* answer None when the lookup raises KeyError
Query(q, height) ==
    /\ phase = "ok"
    /\ lastOp' = [NoOp EXCEPT
                    !.op = q, !.height = height,
                    !.result = CASE q = "get_hash" -> get_hash(Current, height)
                                 [] q = "get_ses" -> get_ses(Current, height)
                                 [] q = "contains_height" -> Some(contains_height(Current, height))
                                 [] q = "get_ses_heights" -> get_ses_heights(Current)]
    /\ queries' = <<>>
    /\ UNCHANGED <<db, phase, height_to_hash, sub_epoch_summaries, prev_hash,
                   lowest_height, error>>

\* update_height for a block of the tree; inOrder records whether every call
\* so far was at most one height above the highest height recorded
Advance(header_hash, ses) ==
    /\ UpdateHeight(header_hash, ses)
    /\ inOrder' = (inOrder /\ HeightOf(header_hash) <= PeakHeight(Current) + 1)

\* the stores of the index loaded in part: a chain with a summary at every
\* height and its peak at the top, the same with its peak one height lower,
\* one with the genesis block alone, and one with no peak
IndexStores ==
    {Store(BlockId(0, MaxHeight), {}, {}, 1, 0, TRUE),
     Store(BlockId(0, MaxHeight - 1), {}, {}, 1, 0, TRUE),
     Store(BlockId(0, 0), {}, {}, 1, 0, TRUE),
     Store(BlockId(0, 0), {}, {}, 0, 0, FALSE)}

InitIndex == InitOn(IndexStores)

\* the blocks connected to the index loaded in part: those of the chain of the
\* store and of the chain that forks from it above the genesis block
AdvanceBlocks == {x \in Universe : ChainOf(x) <= 1}

NextIndex ==
    \/ Seed /\ UNCHANGED <<reorg, inOrder, rolled, loop>>
    \/ Create /\ UNCHANGED <<reorg, inOrder, rolled, loop>>
    \/ \E t \in Heights : LoadTo(t) /\ UNCHANGED <<reorg, inOrder, rolled, loop>>
    \/ \E x \in AdvanceBlocks : \E s \in {None, Some(SummaryOf(x))} :
            Advance(x, s) /\ UNCHANGED <<reorg, rolled, loop>>
    \/ \E k \in ForkHeights : Rollback(k) /\ UNCHANGED <<reorg, inOrder, rolled, loop>>
    \/ \E q \in QueryNames : \E h \in QueryHeights :
            /\ q = "get_ses_heights" => h = 0
            /\ Query(q, h)
            /\ UNCHANGED <<reorg, inOrder, rolled, loop>>

\* construction, whole or stopped after seeding, followed by any sequence of
\* backward loads, update_height and rollback calls and queries
SpecIndex == InitIndex /\ [][NextIndex]_vars

\* ------------------------------------- the loop of _load_blocks_to by steps

\* _load_blocks_to(height) up to its loop: the two asserts hold, the range
\* query is sent and its rows are put in `ordered`
LoadBegin(height) ==
    /\ phase = "ok" /\ ~loop.active
    /\ height < lowest_height
    /\ prev_hash # None
    /\ \E rows \in RowOrders(RangeRows(db, height, lowest_height)) :
        loop' = [active |-> TRUE, target |-> height, ordered |-> Ordered(rows),
                 steps |-> 0, floor |-> lowest_height,
                 from |-> [Current EXCEPT !.error = ""]]
    /\ error' = ""
    /\ queries' = LoadQueries(Current, height)
    /\ lastOp' = [NoOp EXCEPT !.op = "load_begin", !.height = height,
                              !.peak_before = PeakHeight(Current),
                              !.floor_before = lowest_height]
    /\ UNCHANGED <<db, phase, height_to_hash, sub_epoch_summaries, prev_hash, lowest_height>>

\* one iteration of the loop: it completes, or it raises and the call ends
LoadStep ==
    /\ phase = "ok" /\ loop.active
    /\ lowest_height > loop.target
    /\ Install(LoadIteration(Current, loop.ordered))
    /\ loop' = IF LoadIteration(Current, loop.ordered).error # ""
               THEN [loop EXCEPT !.active = FALSE]
               ELSE [loop EXCEPT !.steps = @ + 1]
    /\ lastOp' = [lastOp EXCEPT !.op = "load_step"]
    /\ UNCHANGED <<db, phase, queries>>

\* the loop condition is false: _load_blocks_to returns
LoadReturn ==
    /\ phase = "ok" /\ loop.active
    /\ ~(lowest_height > loop.target)
    /\ loop' = [loop EXCEPT !.active = FALSE]
    /\ lastOp' = [lastOp EXCEPT !.op = "load_return"]
    /\ UNCHANGED <<db, phase, queries, height_to_hash, sub_epoch_summaries, prev_hash,
                   lowest_height, error>>

NextLoop ==
    \/ Seed /\ UNCHANGED <<reorg, inOrder, rolled, loop>>
    \/ \E t \in Heights : LoadBegin(t) /\ UNCHANGED <<reorg, inOrder, rolled>>
    \/ LoadStep /\ UNCHANGED <<reorg, inOrder, rolled>>
    \/ LoadReturn /\ UNCHANGED <<reorg, inOrder, rolled>>

\* seeding followed by backward loads whose loop is run iteration by iteration
SpecLoop == InitLoad /\ [][NextLoop]_vars

\* ---------------------------------------------- what the properties speak of


\* the rows of the store d with header hash x (header_hash is the primary key)
Lookup(d, x) == {r \in d : r.header_hash = x}

\* the row flagged as peak
ThePeak == CHOOSE r \in PeakRows(db) : TRUE

RECURSIVE IntactFrom(_, _, _)
\* the store holds the block x at height h and its parent chain down to height 0
IntactFrom(d, x, h) ==
    /\ \E r \in Lookup(d, x) :
        /\ r.height = h
        /\ h = 0 \/ IntactFrom(d, r.prev_hash, h - 1)

\* the store has a peak row whose parent-hash chain is intact
Intact(d) ==
    /\ PeakRows(d) # {}
    /\ \A r \in PeakRows(d) : IntactFrom(d, r.header_hash, r.height)

RECURSIVE PathRows(_, _, _)
\* the rows of d on the parent chain of the block x, over at most n + 1 heights
PathRows(d, x, n) ==
    IF n < 0 \/ Lookup(d, x) = {} THEN {}
    ELSE Lookup(d, x) \cup
         UNION {PathRows(d, r.prev_hash, n - 1) : r \in Lookup(d, x)}

\* the rows of the peak and of its ancestors: the store without its orphans
CanonicalRows(d) ==
    UNION {PathRows(d, r.header_hash, r.height) : r \in PeakRows(d)}

\* the rows of the store that are neither the peak nor one of its ancestors
OrphanRows(d) == d \ CanonicalRows(d)

\* the canonical row at height h, as a set (empty when there is none)
CanonicalAt(d, h) == {r \in CanonicalRows(d) : r.height = h}

\* the parent hash the store holds for block x
StoredParent(d, x) == (CHOOSE r \in Lookup(d, x) : TRUE).prev_hash

\* create has returned an index built from a peak row
Constructed == lastOp.op = "create" /\ phase = "ok" /\ PeakRows(db) # {}

\* ------------------------------------------------------------------ properties

\* C1 (as stated): for every store with a peak row at any height p >= 0 whose
\* parent-hash chain down to height 0 is intact, create completes without
\* error and get_hash(h) succeeds for every h in [0, p].
C1_ConstructionCompletes ==
    (lastOp.op = "create" /\ Intact(db)) =>
        /\ phase = "ok"
        /\ \A h \in 0 .. ThePeak.height : get_hash(Current, h) # None

\* C2: after a successful construction from a store with peak height p,
\* get_hash(p) is the peak's header hash and, for every h in [1, p], the parent
\* hash the store holds for the block get_hash(h) is get_hash(h - 1).
C2_CanonicalPathContinuity ==
    Constructed =>
        /\ get_hash(Current, ThePeak.height) = Some(ThePeak.header_hash)
        /\ \A h \in 1 .. ThePeak.height :
            /\ get_hash(Current, h) # None
            /\ Lookup(db, Val(get_hash(Current, h))) # {}
            /\ get_hash(Current, h - 1) =
                    Some(StoredParent(db, Val(get_hash(Current, h))))

C2_Witness ==
    /\ Constructed
    /\ ThePeak.height = MaxHeight
    /\ \E r \in OrphanRows(db) : r.height < ThePeak.height

\* C3: construction does not see the orphans: whatever the order of the rows
\* of the range query, create ends in the state it ends in on the store that
\* holds only the peak and its ancestors, and get_hash(h) is the hash of the
\* peak's ancestor at height h, never an orphan's.
C3_OrphanIndependence ==
    (lastOp.op = "create" /\ PeakRows(db) # {}) =>
        /\ \A rows \in RowOrders(RangeRows(CanonicalRows(db), 0, ThePeak.height)) :
                Current = CreateFrom(Some(ThePeak), rows)
        /\ phase = "ok" =>
                \A h \in 0 .. ThePeak.height :
                    \E r \in CanonicalAt(db, h) : get_hash(Current, h) = Some(r.header_hash)

C3_Witness ==
    /\ Constructed
    /\ ThePeak.height >= 2
    /\ \E r \in OrphanRows(db) : r.height < ThePeak.height /\ r.height > 0

\* C4: after construction get_ses(h) succeeds exactly at the heights in
\* [0, peak height] whose canonical block carries a summary in the store, and
\* returns that block's summary; a summary of an orphan is never recorded.
C4_SummariesOfCanonicalPath ==
    Constructed =>
        \A h \in QueryHeights :
            IF \E r \in CanonicalAt(db, h) : r.sub_epoch_summary # None
            THEN \E r \in CanonicalAt(db, h) :
                    get_ses(Current, h) = Some(SummaryOf(r.header_hash))
            ELSE get_ses(Current, h) = None

C4_Witness ==
    /\ Constructed
    /\ \E r \in OrphanRows(db) :
        /\ r.sub_epoch_summary # None
        /\ r.height < ThePeak.height
        /\ \E c \in CanonicalAt(db, r.height) : c.sub_epoch_summary = None
    /\ \E h \in QueryHeights : get_ses(Current, h) # None
    /\ ThePeak.sub_epoch_summary # None

\* C5: after construction from a store with peak height p, contains_height(h)
\* is true for every h in [0, p] and false for every h > p.
C5_ContainsHeightUpToPeak ==
    Constructed =>
        \A h \in QueryHeights : contains_height(Current, h) = (h <= ThePeak.height)

C5_Witness ==
    /\ Constructed
    /\ ThePeak.height \in 1 .. MaxHeight
    /\ contains_height(Current, 0)
    /\ ~contains_height(Current, ThePeak.height + 1)

\* the last call was update_height(h, new_hash, None) with h one past the peak
AdvancedPastPeak(op) ==
    /\ op.op = "update_height"
    /\ op.ses = None
    /\ op.height = op.peak_before + 1

\* C6: update_height(h, new_hash, None) with h exactly one past the current
\* peak height makes get_hash(h) = new_hash and changes nothing else: get_hash
\* at every other height, the summaries, lowest_height and prev_hash are as
\* before the call.
C6_AdvanceFrame ==
    [][AdvancedPastPeak(lastOp') =>
        /\ error' = ""
        /\ get_hash(Current', lastOp'.height) = Some(lastOp'.header_hash)
        /\ \A h \in QueryHeights \ {lastOp'.height} :
                get_hash(Current', h) = get_hash(Current, h)
        /\ DOMAIN height_to_hash' = DOMAIN height_to_hash \cup {lastOp'.height}
        /\ sub_epoch_summaries' = sub_epoch_summaries
        /\ lowest_height' = lowest_height
        /\ prev_hash' = prev_hash]_vars

C6_Witness ==
    /\ AdvancedPastPeak(lastOp)
    /\ lastOp.height = MaxHeight
    /\ get_hash(Current, lastOp.height) = Some(lastOp.header_hash)
    /\ DOMAIN sub_epoch_summaries # {}

\* C7: update_height(h, hash, s) with a summary s makes get_ses(h) return s;
\* and a height gets a summary only by being loaded with one at construction
\* or by an update_height call that supplies one for it, so that get_ses(h)
\* raises KeyError at every height never given a summary.
C7_SummariesOnlyWhenGiven ==
    [][/\ (lastOp'.op = "update_height" /\ lastOp'.ses # None) =>
                get_ses(Current', lastOp'.height) = lastOp'.ses
       /\ \A h \in QueryHeights :
            (get_ses(Current', h) # None /\ get_ses(Current, h) = None) =>
                \/ /\ lastOp'.op = "create"
                   /\ \E r \in CanonicalAt(db, h) : r.sub_epoch_summary # None
                \/ /\ lastOp'.op = "update_height"
                   /\ lastOp'.height = h
                   /\ lastOp'.ses # None]_vars

C7_Witness ==
    /\ lastOp.op = "update_height"
    /\ lastOp.ses # None
    /\ get_ses(Current, lastOp.height) = lastOp.ses
    /\ \E h \in QueryHeights : h < lastOp.height /\ get_ses(Current, h) = None

\* C8: for every fork height k >= -1, after rollback(k) get_ses(h) raises
\* KeyError for every h > k and returns what it returned before the rollback
\* for every h <= k; rollback(-1) removes every summary.
C8_RollbackPurgesAboveFork ==
    [][lastOp'.op = "rollback" =>
        /\ \A h \in QueryHeights :
            get_ses(Current', h) =
                IF h > lastOp'.height THEN None ELSE get_ses(Current, h)
        /\ lastOp'.height = -1 => sub_epoch_summaries' = EmptyMap]_vars

C8_Witness ==
    /\ lastOp.op = "rollback"
    /\ lastOp.height >= 0
    /\ lastOp.deleted # {}
    /\ DOMAIN sub_epoch_summaries # {}

\* C9: rollback(k) leaves the hash index untouched: get_hash(h) and
\* contains_height(h) give the same result after as before at every height h
\* (also h > k), and lowest_height and prev_hash are unchanged.
C9_RollbackKeepsHashes ==
    [][lastOp'.op = "rollback" =>
        /\ height_to_hash' = height_to_hash
        /\ \A h \in QueryHeights :
            /\ get_hash(Current', h) = get_hash(Current, h)
            /\ contains_height(Current', h) = contains_height(Current, h)
        /\ lowest_height' = lowest_height
        /\ prev_hash' = prev_hash]_vars

C9_Witness ==
    /\ lastOp.op = "rollback"
    /\ lastOp.deleted # {}
    /\ \E h \in QueryHeights : h > lastOp.height /\ get_hash(Current, h) # None

\* the height the replacement chain has reached
HealedTo == reorg.fork_height + Cardinality(DOMAIN reorg.supplied)

\* C10: after rollback(k) followed by update_height for the blocks of a
\* replacement chain at k+1, ..., n in increasing order, the block at k+1 a
\* child of the block recorded at k, get_hash(h) is the replacement's hash for
\* every h in (k, n] and the hash from before the rollback for every h <= k;
\* the recorded path, continuous up to k before the rollback, is continuous on
\* [0, n].
C10_ReorgHealing ==
    (phase = "ok" /\ reorg.active) =>
        /\ \A h \in (reorg.fork_height + 1) .. HealedTo :
                get_hash(Current, h) = Some(reorg.supplied[h])
        /\ \A h \in 0 .. reorg.fork_height :
                get_hash(Current, h) =
                    IF h \in DOMAIN reorg.before THEN Some(reorg.before[h]) ELSE None
        /\ reorg.intact => Continuous(height_to_hash, HealedTo)

C10_Witness ==
    /\ reorg.active
    /\ reorg.intact
    /\ reorg.fork_height >= 0
    /\ HealedTo > reorg.fork_height + 1
    /\ \E h \in DOMAIN reorg.supplied :
            h \in DOMAIN reorg.before /\ reorg.before[h] # reorg.supplied[h]
    /\ \E h \in DOMAIN reorg.supplied : h \notin DOMAIN reorg.before

\* the store has no row flagged as peak
NoPeak == PeakRows(db) = {}

\* C11: construction from a store with no row flagged as peak returns an empty
\* index: get_hash and get_ses find nothing at any height, contains_height is
\* false at every height and get_ses_heights is empty; an update_height at
\* height 0 that follows succeeds and get_hash(0) is then the hash supplied.
C11_EmptyStoreEmptyIndex ==
    [][ /\ (lastOp'.op = "create" /\ NoPeak) =>
            /\ phase' = "ok"
            /\ \A h \in QueryHeights :
                /\ get_hash(Current', h) = None
                /\ get_ses(Current', h) = None
                /\ ~contains_height(Current', h)
            /\ get_ses_heights(Current') = <<>>
        /\ (lastOp.op = "create" /\ NoPeak /\ lastOp'.op = "update_height"
                /\ lastOp'.height = 0) =>
            /\ error' = ""
            /\ get_hash(Current', 0) = Some(lastOp'.header_hash)
            /\ lastOp'.ses # None => get_ses(Current', 0) = lastOp'.ses
      ]_vars

C11_Witness ==
    /\ NoPeak
    /\ lastOp.op = "update_height" /\ lastOp.height = 0 /\ lastOp.peak_before = -1
    /\ lastOp.ses # None
    /\ get_hash(Current, 0) = Some(lastOp.header_hash)
    /\ get_ses_heights(Current) = <<0>>

\* C13: in every state reached by create and any update_height and rollback
\* calls, get_ses_heights returns, strictly ascending and so without
\* duplicates, exactly the heights at which get_ses finds a summary; right
\* after rollback(k) every height it returns is at most k.
C13_SummaryHeightsSortedExact ==
    phase = "ok" =>
        LET hs == get_ses_heights(Current) IN
        /\ \A i \in 1 .. Len(hs) : \A j \in 1 .. Len(hs) : i < j => hs[i] < hs[j]
        /\ {hs[i] : i \in 1 .. Len(hs)} = {h \in QueryHeights : get_ses(Current, h) # None}
        /\ lastOp.op = "rollback" => \A i \in 1 .. Len(hs) : hs[i] <= lastOp.height

C13_Witness ==
    /\ phase = "ok"
    /\ lastOp.op = "rollback" /\ lastOp.deleted # {}
    /\ Len(get_ses_heights(Current)) >= 2
    /\ get_ses_heights(Current)[Len(get_ses_heights(Current))] = lastOp.height

\* the object _load_blocks_to starts from in the step being taken: the seeded
\* object within create, the object as it is for a direct call
LoadStart ==
    IF lastOp'.op = "create" THEN Seeded(ThePeak) ELSE [Current EXCEPT !.error = ""]

\* the row of the range [lo, hi) of the store whose hash is the one to resolve
Resolved(self, lo, hi) == Lookup(RangeRows(db, lo, hi), Val(self.prev_hash))

\* the load from `pre` towards height t stopped at `post` on a hash absent
\* from the range or on a record at another height than the one below
\* lowest_height, or it did not stop
StopsAtInconsistency(pre, post, t) ==
    /\ post.error = "" => post.lowest_height = t
    /\ post.lowest_height > t =>
        /\ post.error # ""
        /\ post.error = "KeyError" <=> Resolved(post, t, pre.lowest_height) = {}
        /\ post.error = "AssertionError" <=>
                \E r \in Resolved(post, t, pre.lowest_height) :
                    r.height # post.lowest_height - 1

\* the load recorded nothing for the record it stopped on and skipped no
\* height: the heights added are those from the new lowest_height up, each with
\* the block the store holds at that height as parent of the one above
RecordsNoGap(pre, post) ==
    /\ post.error \in {"", "KeyError", "AssertionError"} =>
        /\ DOMAIN post.height_to_hash =
                DOMAIN pre.height_to_hash \cup (post.lowest_height .. pre.lowest_height - 1)
        /\ DOMAIN post.sub_epoch_summaries \subseteq
                DOMAIN pre.sub_epoch_summaries \cup (post.lowest_height .. pre.lowest_height - 1)
    /\ \A h \in post.lowest_height .. pre.lowest_height - 1 :
        /\ h \in DOMAIN post.height_to_hash
        /\ \E r \in Lookup(db, post.height_to_hash[h]) : r.height = h
        /\ post.height_to_hash[h] =
                IF h = pre.lowest_height - 1 THEN Val(pre.prev_hash)
                ELSE StoredParent(db, post.height_to_hash[h + 1])

\* C14: an inconsistent store is fatal to the backward load: when the hash to
\* resolve is absent from the rows of the range, or the record found is not at
\* lowest_height - 1, the load ends with an error (and create fails with it),
\* no entry is recorded for the offending record and the load does not go on
\* below the gap.
C14_InconsistencyIsFatal ==
    [][ (lastOp'.op = "load" \/ (lastOp'.op = "create" /\ ~NoPeak)) =>
            /\ LoadStart.error = "" =>
                /\ StopsAtInconsistency(LoadStart, Current', lastOp'.height)
                /\ RecordsNoGap(LoadStart, Current')
            /\ (lastOp'.op = "create" /\ error' # "") => phase' = "failed"
      ]_vars

C14_Witness ==
    /\ lastOp.op = "load" /\ lastOp.height = 0
    /\ error = "AssertionError"
    /\ lowest_height > 0
    /\ Cardinality(DOMAIN height_to_hash) >= 2
    /\ Lookup(db, Val(prev_hash)) # {}

\* the store is consistent: the parent chain of its peak is intact and every
\* summary blob on it decodes
Sound(d) ==
    /\ Intact(d)
    /\ \A r \in CanonicalRows(d) :
            r.sub_epoch_summary = None \/ Decodable(Val(r.sub_epoch_summary))

\* C15: _load_blocks_to(t) with t < lowest_height = L on a consistent store
\* adds exactly the peak's ancestors at the heights t .. L - 1 (their hashes
\* and their summaries), leaves the entries at L and above as they were, and
\* returns with lowest_height = t and prev_hash the parent hash the store
\* holds for the block recorded at t.
C15_BackwardLoadContract ==
    [][ (lastOp'.op = "load" /\ Sound(db)) =>
            LET t == lastOp'.height
                L == lowest_height
            IN  /\ error' = ""
                /\ lowest_height' = t
                /\ DOMAIN height_to_hash' = DOMAIN height_to_hash \cup (t .. L - 1)
                /\ \A h \in t .. L - 1 :
                    \E r \in CanonicalAt(db, h) :
                        /\ height_to_hash'[h] = r.header_hash
                        /\ get_ses(Current', h) =
                                IF r.sub_epoch_summary = None THEN None
                                ELSE Some(FromBytes(Val(r.sub_epoch_summary)))
                /\ \A h \in DOMAIN height_to_hash : h >= L => height_to_hash'[h] = height_to_hash[h]
                /\ \A h \in QueryHeights : h >= L => get_ses(Current', h) = get_ses(Current, h)
                /\ prev_hash' = Some(StoredParent(db, height_to_hash'[t]))
      ]_vars

C15_Witness ==
    /\ lastOp.op = "load" /\ lastOp.height = 1 /\ lastOp.peak_before = 2
    /\ Sound(db)
    /\ lowest_height = 1
    /\ DOMAIN height_to_hash = {1, 2}
    /\ prev_hash = Some(StoredParent(db, height_to_hash[1]))

\* the one range query of a backward load from lowest_height hi to height lo
RangeQuery(lo, hi) == [query |-> "range", lo |-> lo, hi |-> hi]

\* create went on to call _load_blocks_to: the peak row was found and seeded
CreateLoads ==
    /\ lastOp.op = "create" /\ ~NoPeak
    /\ Seeded(ThePeak).error = ""

\* C16: every run of _load_blocks_to sends exactly one range query, over
\* [target, lowest_height), whether it succeeds or fails; create sends one
\* peak query and at most one range query.
C16_OneRangeQueryPerLoad ==
    /\ lastOp.op = "load" =>
            /\ Len(queries) = 1
            /\ queries[1].query = "range" /\ queries[1].lo = lastOp.height
    /\ lastOp.op = "create" =>
            /\ Len(queries) \in {1, 2}
            /\ queries[1] = PeakQuery
            /\ Len(queries) = 2 => queries[2].query = "range"
    /\ CreateLoads => queries = <<PeakQuery, RangeQuery(0, ThePeak.height)>>

\* the members of the object are left as they are by the step
IndexUnchanged ==
    UNCHANGED <<height_to_hash, sub_epoch_summaries, prev_hash, lowest_height>>

\* C12: get_hash(h) raises KeyError and leaves the index as it is for every h
\* with no entry in height_to_hash: above the highest height recorded or below
\* lowest_height; it returns a hash only for a height that has an entry.
C12_GetHashNotFound ==
    [][ lastOp'.op = "get_hash" =>
            LET h == lastOp'.height IN
            /\ IndexUnchanged
            /\ (h \notin DOMAIN height_to_hash \/ h > PeakHeight(Current) \/ h < lowest_height)
                    => lastOp'.result = None
            /\ lastOp'.result # None =>
                    h \in DOMAIN height_to_hash /\ lastOp'.result = Some(height_to_hash[h])
      ]_vars

C12_Witness ==
    /\ lastOp.op = "get_hash" /\ lastOp.result = None
    /\ lastOp.height < lowest_height
    /\ DOMAIN height_to_hash # {}

\* C17 as stated: in every state reached by construction and any backward
\* loads, update_height and rollback calls, the heights with a summary are a
\* strict subset of the heights with a hash: each has a hash, and some height
\* with a hash has no summary.
C17_SummaryHeightsStrictSubset ==
    phase = "ok" =>
        /\ DOMAIN sub_epoch_summaries \subseteq DOMAIN height_to_hash
        /\ DOMAIN sub_epoch_summaries # DOMAIN height_to_hash

\* C17 amended: in every such state every height with a summary has a hash
\* (the two sets of heights may be equal).
C17_SummaryHeightsSubset ==
    phase = "ok" => DOMAIN sub_epoch_summaries \subseteq DOMAIN height_to_hash

C17_Witness ==
    /\ phase = "ok"
    /\ lastOp.op = "update_height" /\ lastOp.ses # None /\ error = ""
    /\ DOMAIN sub_epoch_summaries = DOMAIN height_to_hash
    /\ Cardinality(DOMAIN height_to_hash) >= 2

\* C18: lowest_height never increases once the index is built: a backward
\* load only lowers it; update_height, rollback and every query leave it as
\* it is.
C18_FloorNeverRises ==
    [][ phase = "ok" =>
            /\ lowest_height' <= lowest_height
            /\ lastOp'.op # "load" => lowest_height' = lowest_height
      ]_vars

C18_Witness ==
    /\ lastOp.op = "update_height" /\ error = ""
    /\ lastOp.height > lowest_height
    /\ lowest_height = 1
    /\ PeakRows(db) # {} /\ ThePeak.height > lowest_height

\* the keys of height_to_hash start at lowest_height and have no gap
GapFree(self) ==
    \/ DOMAIN self.height_to_hash = {}
    \/ /\ Min(DOMAIN self.height_to_hash) = self.lowest_height
       /\ DOMAIN self.height_to_hash =
            Min(DOMAIN self.height_to_hash) .. Max(DOMAIN self.height_to_hash)

C20_ContainsHeightAndFloor ==
    phase = "ok" =>
        \A h \in QueryHeights :
            /\ contains_height(Current, h) <=> (h < lowest_height \/ h \in DOMAIN height_to_hash)
            /\ lowest_height = 0 =>
                    (contains_height(Current, h) <=> get_hash(Current, h) # None)
            /\ h < lowest_height =>
                    contains_height(Current, h) /\ get_hash(Current, h) = None

C20_Witness ==
    /\ lastOp.op = "contains_height" /\ lastOp.result = Some(TRUE)
    /\ lastOp.height < lowest_height
    /\ get_hash(Current, lastOp.height) = None
    /\ DOMAIN height_to_hash # {}

RECURSIVE AnyOrder(_)
\* the rows of the set S in one order, as fetchall may return them
AnyOrder(S) ==
    IF S = {} THEN <<>>
    ELSE LET r == CHOOSE q \in S : TRUE IN <<r>> \o AnyOrder(S \ {r})

\* the object one _load_blocks_to(height) gives when run on the object seeded
\* from the peak
LoadedFromSeed(height) ==
    LoadBlocksTo(Seeded(ThePeak), AnyOrder(RangeRows(db, height, ThePeak.height)), height)

\* the two objects hold the same hashes, summaries, lowest_height and prev_hash
SameIndex(a, b) ==
    /\ a.height_to_hash = b.height_to_hash
    /\ a.sub_epoch_summaries = b.sub_epoch_summaries
    /\ a.lowest_height = b.lowest_height
    /\ a.prev_hash = b.prev_hash

\* C21: backward loading can be resumed: from the object seeded from the peak,
\* loads to t1 and then to t2 < t1 (and so on, over the same store) end with
\* the same hashes, summaries, lowest_height and prev_hash as one load from
\* the seeded object straight to the last target.
C21_ResumableLoading ==
    [][ (lastOp'.op = "load" /\ ~NoPeak) =>
            SameIndex(Current', LoadedFromSeed(lastOp'.height))
      ]_vars

C21_Witness ==
    /\ lastOp.op = "load" /\ error = ""
    /\ ~NoPeak
    /\ lastOp.height < lastOp.floor_before
    /\ lastOp.floor_before < ThePeak.height
    /\ lowest_height = lastOp.height
    /\ OrphanRows(db) # {}

\* the last call was a backward load and it raised
LoadFailed == lastOp.op = "load" /\ error # ""

\* the object is the one a successful load down to its lowest_height gives:
\* no key below lowest_height, the peak's ancestors at the heights from
\* lowest_height up to the peak, prev_hash the stored parent of the block at
\* lowest_height
LoadedDownToFloor(self) ==
    /\ \A h \in DOMAIN self.height_to_hash : h >= self.lowest_height
    /\ \A h \in self.lowest_height .. ThePeak.height :
        /\ h \in DOMAIN self.height_to_hash
        /\ \E r \in Lookup(db, self.height_to_hash[h]) :
            /\ r.height = h
            /\ h < ThePeak.height => StoredParent(db, self.height_to_hash[h + 1]) = r.header_hash
    /\ self.lowest_height \in DOMAIN self.height_to_hash
            => self.prev_hash = Some(StoredParent(db, self.height_to_hash[self.lowest_height]))
    /\ self.lowest_height < ThePeak.height =>
            SameIndex(self, LoadedFromSeed(self.lowest_height))

\* C22: a backward load that fails part-way (hash missing from the range,
\* height mismatch, or a summary blob that does not decode) leaves the index
\* consistent: no key of height_to_hash below lowest_height, every entry a
\* canonical ancestor, prev_hash the parent hash of the block recorded at
\* lowest_height: the state a successful load to lowest_height gives.
C22_FailedLoadConsistent ==
    LoadFailed => LoadedDownToFloor(Current)

\* C23: in every state with lowest_height > 0 reached by seeding from the peak
\* and any backward loads, rollbacks and update_height calls at heights >=
\* lowest_height (one that overwrites the entry at lowest_height included),
\* prev_hash is the parent hash of the block recorded at lowest_height.
C23_PrevHashIsParentOfFloorBlock ==
    (phase = "ok" /\ lowest_height > 0 /\ lowest_height \in DOMAIN height_to_hash) =>
        prev_hash = Some(ParentOf(height_to_hash[lowest_height]))

\* C24: under the reorganisation protocol (rollback(k), then update_height at
\* k + 1, k + 2, ... in increasing order) every summary recorded at a height h
\* is the summary that came with the block whose hash is recorded at h, loaded
\* from its row or supplied with it: no summary of a replaced block stays next
\* to the hash of its replacement.
C24_SummariesMatchHashes ==
    phase = "ok" =>
        \A h \in DOMAIN sub_epoch_summaries :
            /\ h \in DOMAIN height_to_hash
            /\ sub_epoch_summaries[h] = SummaryOf(height_to_hash[h])

C24_Witness ==
    /\ phase = "ok" /\ reorg.active
    /\ lastOp.op = "update_height" /\ lastOp.ses = None
    /\ \E h \in DOMAIN reorg.supplied :
        /\ h \in DOMAIN reorg.before /\ reorg.before[h] # height_to_hash[h]
        /\ h \in DOMAIN sub_epoch_summaries
    /\ \E h \in DOMAIN reorg.supplied :
        /\ h \in DOMAIN reorg.before /\ reorg.before[h] # height_to_hash[h]
        /\ h \notin DOMAIN sub_epoch_summaries

\* C25: rollback composes and is idempotent: rollback(j) followed by
\* rollback(k) gives the state of one rollback(min(j, k)), and rollback(k)
\* twice gives the state of rollback(k) once; so a run of rollback calls
\* gives the state of one rollback to the lowest fork height of the run.
C25_RollbackComposes ==
    (phase = "ok" /\ rolled.active) =>
        /\ SameIndex(Current, rollback(rolled.base, rolled.fork))
        /\ error = rollback(rolled.base, rolled.fork).error

C25_Witness ==
    /\ phase = "ok" /\ rolled.active
    /\ lastOp.op = "rollback" /\ rolled.fork < lastOp.height
    /\ Cardinality(DOMAIN rolled.base.sub_epoch_summaries) >= 2
    /\ DOMAIN sub_epoch_summaries # DOMAIN rolled.base.sub_epoch_summaries
    /\ DOMAIN sub_epoch_summaries # {}

\* the call that ran the loop by steps ended as LoadLoop computes it
LoopAgrees ==
    LET whole == LoadLoop(loop.from, loop.ordered, loop.target) IN
    SameIndex(Current, whole) /\ error = whole.error

\* C26: the backward load always ends: on every store (forks, gaps, wrong
\* heights, parent-hash cycles) and for every target t < lowest_height = L the
\* loop makes at most L - t iterations, each completed one lowering
\* lowest_height by exactly one, and ends with lowest_height = t or with an
\* exception.
C26_LoadTerminates ==
    (phase = "ok" /\ loop.floor > loop.target) =>
        /\ loop.steps <= loop.floor - loop.target
        /\ lowest_height = loop.floor - loop.steps
        /\ ~loop.active =>
            /\ error = "" => lowest_height = loop.target
            /\ LoopAgrees

C26_Witness ==
    /\ phase = "ok" /\ ~loop.active
    /\ lastOp.op = "load_step" /\ error = "AssertionError"
    /\ loop.steps >= 1 /\ loop.target = 0
    /\ lowest_height \in DOMAIN height_to_hash
    /\ prev_hash = Some(height_to_hash[lowest_height])
====
